---- MODULE Spec2Model ----
(***************************************************************************)
(* Model of src/local_auto_correct.py: the correction appliers, the        *)
(* orchestrator apply_corrections, the disposition predicates, safe_move   *)
(* and the batch driver process.                                           *)
(*                                                                         *)
(* JSON values are encoded as strings: a JSON string is itself, and the    *)
(* other scalars and "key not in the mapping" are the "#..." atoms below.  *)
(* Text that the code takes apart (file names, descriptor strings) is a    *)
(* sequence of tokens, so that stem/suffix, glob prefixes, split, strip    *)
(* and join are computed as the code computes them.                        *)
(***************************************************************************)
EXTENDS Integers, Sequences, FiniteSets, TLC

VARIABLES
    mode,        \* which entry point this behaviour exercises
    pc,          \* position in the entry point
    record,      \* apply_corrections / add_related_identifiers: the record (mutated in place)
    report,      \* apply_corrections: the QA report
    identifiers, \* add_related_identifiers: the input list
    rec0,        \* the record before the first call
    out1,        \* result of the first call
    rec1,        \* the record after the first call
    out2,        \* result of the second call
    dry_run,     \* process: the --dry-run flag
    qa,          \* process: the files of qa_dir
    report_files,\* process: qa_dir's *.json files in the order glob yields them
    bs0,         \* process: the batch state at the start (the snapshot)
    bs,          \* process: the batch state
    todo         \* process: the items of report_map not yet processed

pureVars == <<record, report, identifiers, rec0, out1, rec1, out2>>
batchVars == <<dry_run, qa, report_files, bs0, bs, todo>>
vars == <<mode, pc, record, report, identifiers, rec0, out1, rec1, out2,
          dry_run, qa, report_files, bs0, bs, todo>>

----------------------------------------------------------------------------
(* JSON scalars *)

Absent == "#absent"
JNull == "#null"
JTrue == "#true"
JFalse == "#false"
JZero == "#0"

\* Python truthiness of a scalar; a missing key read with .get(k) is None.
Truthy(v) == v \notin {Absent, JNull, JFalse, JZero, ""}

\* dict.get(key, default)
Get(v, default) == IF v = Absent THEN default ELSE v

----------------------------------------------------------------------------
(* Sequence helpers *)

RECURSIVE SeqCount(_, _)
SeqCount(s, x) ==
    IF s = <<>> THEN 0
    ELSE (IF Head(s) = x THEN 1 ELSE 0) + SeqCount(Tail(s), x)

SeqReplace(s, old, new) == [i \in DOMAIN s |-> IF s[i] = old THEN new ELSE s[i]]

Range(s) == {s[i] : i \in DOMAIN s}

IsPrefix(s, t) == Len(s) <= Len(t) /\ SubSeq(t, 1, Len(s)) = s

----------------------------------------------------------------------------
(* Correction appliers.  A record is                                       *)
(*   [mapping, hasMeta, title, description, publication_date, creators,    *)
(*    hasRel, rel, desc]                                                   *)
(* mapping = FALSE is a record file whose JSON is not an object (a list):  *)
(* every dict method called on it raises AttributeError.  hasMeta and      *)
(* hasRel say whether the "metadata" and "related_identifiers" keys exist  *)
(* (setdefault creates them).  An applier returns [record, ret, raised].   *)

Ret(r, v) == [record |-> r, ret |-> v, raised |-> FALSE]
Raise(r, v) == [record |-> r, ret |-> v, raised |-> TRUE]

apply_title(rec, correction) ==
    IF ~Truthy(correction) THEN Ret(rec, FALSE)
    ELSE IF ~rec.mapping THEN Raise(rec, FALSE)
    ELSE LET r1 == [rec EXCEPT !.hasMeta = TRUE]
             old == Get(r1.title, "")
         IN  IF old = correction THEN Ret(r1, FALSE)
             ELSE Ret([r1 EXCEPT !.title = correction], TRUE)

apply_abstract(rec, correction) ==
    IF ~Truthy(correction) THEN Ret(rec, FALSE)
    ELSE IF ~rec.mapping THEN Raise(rec, FALSE)
    ELSE LET r1 == [rec EXCEPT !.hasMeta = TRUE]
             old == Get(r1.description, "")
         IN  IF old = correction THEN Ret(r1, FALSE)
             ELSE Ret([r1 EXCEPT !.description = correction], TRUE)

apply_publication_date(rec, correction) ==
    IF ~Truthy(correction) THEN Ret(rec, FALSE)
    ELSE IF ~rec.mapping THEN Raise(rec, FALSE)
    ELSE LET r1 == [rec EXCEPT !.hasMeta = TRUE]
             old == Get(r1.publication_date, "")
         IN  IF old = correction THEN Ret(r1, FALSE)
             ELSE Ret([r1 EXCEPT !.publication_date = correction], TRUE)

\* Number of affiliation entries, over all creators, named old.
RECURSIVE AffMatches(_, _)
AffMatches(creators, old) ==
    IF creators = <<>> THEN 0
    ELSE SeqCount(Head(creators).affiliations, old) + AffMatches(Tail(creators), old)

\* The inner two loops of apply_affiliations for one pair.
AffRewrite(creators, old, new) ==
    [i \in DOMAIN creators |->
        [creators[i] EXCEPT !.affiliations = SeqReplace(@, old, new)]]

\* The loop over the pairs; a pair is [shape, old, new], shape "str" being a
\* list entry that is not a mapping (correction.get raises).
RECURSIVE AffLoop(_, _, _)
AffLoop(creators, corrections, applied) ==
    IF corrections = <<>>
    THEN [creators |-> creators, applied |-> applied, raised |-> FALSE]
    ELSE LET c == Head(corrections)
             old_aff == Get(c.old, "")
             new_aff == Get(c.new, "")
         IN  IF c.shape # "map"
             THEN [creators |-> creators, applied |-> applied, raised |-> TRUE]
             ELSE IF ~Truthy(old_aff) \/ ~Truthy(new_aff)
             THEN AffLoop(creators, Tail(corrections), applied)
             ELSE AffLoop(AffRewrite(creators, old_aff, new_aff), Tail(corrections),
                          applied + AffMatches(creators, old_aff))

apply_affiliations(rec, corrections) ==
    IF corrections = <<>> THEN Ret(rec, 0)
    ELSE IF ~rec.mapping THEN Raise(rec, 0)
    ELSE LET r == AffLoop(rec.creators, corrections, 0)
         IN  [record |-> [rec EXCEPT !.creators = r.creators],
              ret |-> r.applied, raised |-> r.raised]

IsOrgNamed(creator, old) == creator.type = "organizational" /\ creator.name = old

RECURSIVE OrgMatches(_, _)
OrgMatches(creators, old) ==
    IF creators = <<>> THEN 0
    ELSE (IF IsOrgNamed(Head(creators), old) THEN 1 ELSE 0)
         + OrgMatches(Tail(creators), old)

OrgRewrite(creators, old, new) ==
    [i \in DOMAIN creators |->
        IF IsOrgNamed(creators[i], old) THEN [creators[i] EXCEPT !.name = new]
        ELSE creators[i]]

RECURSIVE OrgLoop(_, _, _)
OrgLoop(creators, corrections, applied) ==
    IF corrections = <<>>
    THEN [creators |-> creators, applied |-> applied, raised |-> FALSE]
    ELSE LET c == Head(corrections)
             old_org == Get(c.old, "")
             new_org == Get(c.new, "")
         IN  IF c.shape # "map"
             THEN [creators |-> creators, applied |-> applied, raised |-> TRUE]
             ELSE IF ~Truthy(old_org) \/ ~Truthy(new_org)
             THEN OrgLoop(creators, Tail(corrections), applied)
             ELSE OrgLoop(OrgRewrite(creators, old_org, new_org), Tail(corrections),
                          applied + OrgMatches(creators, old_org))

apply_org_authors(rec, corrections) ==
    IF corrections = <<>> THEN Ret(rec, 0)
    ELSE IF ~rec.mapping THEN Raise(rec, 0)
    ELSE LET r == OrgLoop(rec.creators, corrections, 0)
         IN  [record |-> [rec EXCEPT !.creators = r.creators],
              ret |-> r.applied, raised |-> r.raised]

----------------------------------------------------------------------------
(* Descriptor deletion.  A descriptor string is a sequence of tokens: the  *)
(* delimiters "," and ";", the blank " ", and letters.                     *)

LowerTok(t) == CASE t = "U" -> "u" [] t = "V" -> "v" [] OTHER -> t
Lower(d) == [i \in DOMAIN d |-> LowerTok(d[i])]

\* descriptors.replace(";", ",").split(",")
RECURSIVE SplitText(_, _)
SplitText(text, cur) ==
    IF text = <<>> THEN <<cur>>
    ELSE IF Head(text) \in {",", ";"} THEN <<cur>> \o SplitText(Tail(text), <<>>)
    ELSE SplitText(Tail(text), Append(cur, Head(text)))

RECURSIVE LStrip(_)
LStrip(d) == IF d # <<>> /\ Head(d) = " " THEN LStrip(Tail(d)) ELSE d

RECURSIVE RStrip(_)
RStrip(d) ==
    IF d # <<>> /\ d[Len(d)] = " " THEN RStrip(SubSeq(d, 1, Len(d) - 1)) ELSE d

Strip(d) == RStrip(LStrip(d))

\* [d.strip() for d in ... if d.strip()]
RECURSIVE StripNonEmpty(_)
StripNonEmpty(pieces) ==
    IF pieces = <<>> THEN <<>>
    ELSE (IF Strip(Head(pieces)) = <<>> THEN <<>> ELSE <<Strip(Head(pieces))>>)
         \o StripNonEmpty(Tail(pieces))

ParseDescriptors(text) == StripNonEmpty(SplitText(text, <<>>))

\* "; ".join(filtered)
RECURSIVE JoinDescriptors(_)
JoinDescriptors(items) ==
    IF items = <<>> THEN <<>>
    ELSE IF Len(items) = 1 THEN Head(items)
    ELSE Head(items) \o <<";", " ">> \o JoinDescriptors(Tail(items))

RECURSIVE FilterDescriptors(_, _)
FilterDescriptors(items, deletions_lower) ==
    IF items = <<>> THEN <<>>
    ELSE (IF Lower(Head(items)) \in deletions_lower THEN <<>> ELSE <<Head(items)>>)
         \o FilterDescriptors(Tail(items), deletions_lower)

\* rec.desc is the value of custom_fields["iaea:descriptors_cai_text"]:
\* [kind, text, items], kind in "absent", "str" (text), "list" (items),
\* "other" (a truthy value that is neither).
apply_descriptor_deletions(rec, deletions) ==
    IF deletions = <<>> THEN Ret(rec, FALSE)
    ELSE IF ~rec.mapping THEN Raise(rec, FALSE)
    ELSE LET d == rec.desc
             empty == \/ d.kind = "absent"
                      \/ d.kind = "str" /\ d.text = <<>>
                      \/ d.kind = "list" /\ d.items = <<>>
             descriptor_list == IF d.kind = "str" THEN ParseDescriptors(d.text)
                                ELSE d.items
             deletions_lower == {Lower(deletions[i]) :
                                    i \in {j \in DOMAIN deletions : deletions[j] # <<>>}}
             filtered == FilterDescriptors(descriptor_list, deletions_lower)
         IN  IF empty THEN Ret(rec, FALSE)
             ELSE IF d.kind \notin {"str", "list"} THEN Ret(rec, FALSE)
             ELSE IF Len(filtered) = Len(descriptor_list) THEN Ret(rec, FALSE)
             ELSE IF d.kind = "str"
             THEN Ret([rec EXCEPT !.desc.text = JoinDescriptors(filtered)], TRUE)
             ELSE Ret([rec EXCEPT !.desc.items = filtered], TRUE)

----------------------------------------------------------------------------
(* Related identifiers.  An identifier object is [shape, identifier,       *)
(* scheme]; shape "str" is a list entry that is not a mapping.             *)

\* The loop of add_related_identifiers.
RECURSIVE RelLoop(_, _, _, _)
RelLoop(existing, existing_ids, idents, added) ==
    IF idents = <<>>
    THEN [existing |-> existing, added |-> added, raised |-> FALSE]
    ELSE LET identifier == Head(idents)
             ident == Get(identifier.identifier, "")
         IN  IF identifier.shape # "map"
             THEN [existing |-> existing, added |-> added, raised |-> TRUE]
             ELSE IF Truthy(ident) /\ ident \notin existing_ids
             THEN RelLoop(Append(existing, identifier), existing_ids \cup {ident},
                          Tail(idents), added + 1)
             ELSE RelLoop(existing, existing_ids, Tail(idents), added)

\* Mutant: the set of known identifiers is not seeded from the existing entries.
add_related_identifiers_Unseeded(rec, idents) ==
    IF idents = <<>> THEN Ret(rec, 0)
    ELSE IF ~rec.mapping THEN Raise(rec, 0)
    ELSE LET r == RelLoop(rec.rel, {}, idents, 0)
         IN  [record |-> [rec EXCEPT !.hasMeta = TRUE, !.hasRel = TRUE,
                                     !.rel = r.existing],
              ret |-> r.added, raised |-> r.raised]

add_related_identifiers(rec, idents) ==
    IF idents = <<>> THEN Ret(rec, 0)
    ELSE IF ~rec.mapping THEN Raise(rec, 0)
    ELSE LET existing == rec.rel
             existing_ids == {Get(existing[i].identifier, "") : i \in DOMAIN existing}
             r == RelLoop(existing, existing_ids, idents, 0)
         IN  [record |-> [rec EXCEPT !.hasMeta = TRUE, !.hasRel = TRUE,
                                     !.rel = r.existing],
              ret |-> r.added, raised |-> r.raised]

----------------------------------------------------------------------------
(* The orchestrator.  A report is                                          *)
(*   [record_id, corrections, title_corrected, abstract_corrected,         *)
(*    date_corrected, descriptor_corrected,                                *)
(*    affiliation_correction_recommended, affiliation_corrections,         *)
(*    organizational_author_corrections, scope_ok, duplicate_by_title,     *)
(*    duplicate_by_doi]                                                    *)
(* where record_id is a token sequence (<<>>: missing or falsy) and        *)
(* corrections is [shape, title, abstract, publication_date,               *)
(* delete_descriptor, related_identifiers]: shape "map" is a mapping,      *)
(* "none" a missing or null value (report.get(...) or {} gives {}), and    *)
(* "list" the JSON list ["title"], which is not a mapping.                 *)
(* delete_descriptor is [kind, items], kind in "absent", "null", "str",    *)
(* "list"; related_identifiers is [kind, items], kind in "absent", "obj",  *)
(* "list".  An entry of actions or unapplied is [text, n].                 *)

Note(text) == [text |-> text, n |-> 0]
Counted(text, n) == [text |-> text, n |-> n]

\* "field" in corrections, for the list ["title"] too
HasCorrection(corrections, field) ==
    \/ corrections.shape = "map" /\ corrections[field] # Absent
    \/ corrections.shape = "list" /\ field = "title"

\* The gate test of lines 220, 228, 236, 244 and 255: report.get(flag, True)
\* used as a condition.
GateOpen(flag) == Truthy(Get(flag, JTrue))

\* One gated scalar correction (title, abstract, publication_date): st is the
\* running [record, changed, actions, unapplied, raised]; res is the applier's
\* result, evaluated only when the gate is open.
Gated(st, present, isMap, flag, res, done, withheld) ==
    IF st.raised \/ ~present THEN st
    ELSE IF ~GateOpen(flag)
    THEN [st EXCEPT !.unapplied = Append(@, Note(withheld))]
    ELSE IF ~isMap THEN [st EXCEPT !.raised = TRUE]
    ELSE IF res.raised THEN [st EXCEPT !.raised = TRUE]
    ELSE IF res.ret
    THEN [st EXCEPT !.record = res.record, !.changed = TRUE,
                    !.actions = Append(@, Note(done))]
    ELSE [st EXCEPT !.record = res.record]

\* deletions = corrections.get("delete_descriptor"); a str is wrapped in a
\* list; "deletions or []".
DeletionList(dd) ==
    IF dd.kind \in {"str", "list"} THEN dd.items ELSE <<>>

AffStep(st, rep) ==
    LET aff_corrections == rep.affiliation_corrections
        res == apply_affiliations(st.record, aff_corrections)
    IN  IF st.raised THEN st
        ELSE IF GateOpen(rep.affiliation_correction_recommended)
        THEN IF res.raised THEN [st EXCEPT !.raised = TRUE]
             ELSE IF res.ret > 0
             THEN [st EXCEPT !.record = res.record, !.changed = TRUE,
                       !.actions = Append(@, Counted("Affiliations corrected", res.ret))]
             ELSE IF aff_corrections # <<>>
             THEN [st EXCEPT !.record = res.record,
                       !.unapplied = Append(@,
                           Note("Affiliation corrections present but no matches found"))]
             ELSE st
        ELSE IF aff_corrections # <<>>
        THEN [st EXCEPT !.unapplied = Append(@,
                 Note("Affiliation corrections present but affiliation_correction_recommended=false"))]
        ELSE st

OrgStep(st, rep) ==
    LET org_corrections == rep.organizational_author_corrections
        res == apply_org_authors(st.record, org_corrections)
    IN  IF st.raised \/ org_corrections = <<>> THEN st
        ELSE IF res.raised THEN [st EXCEPT !.raised = TRUE]
        ELSE IF res.ret > 0
        THEN [st EXCEPT !.record = res.record, !.changed = TRUE,
                  !.actions = Append(@,
                      Counted("Organizational authors corrected", res.ret))]
        ELSE [st EXCEPT !.record = res.record,
                  !.unapplied = Append(@,
                      Note("Organizational author corrections present but no matches found"))]

RelStep(st, corrections) ==
    LET ri == corrections.related_identifiers
        related == IF corrections.shape = "map" /\ ri.kind # "absent"
                   THEN ri.items ELSE <<>>
        res == add_related_identifiers(st.record, related)
    IN  IF st.raised \/ related = <<>> THEN st
        ELSE IF res.raised THEN [st EXCEPT !.raised = TRUE]
        ELSE IF res.ret > 0
        THEN [st EXCEPT !.record = res.record, !.changed = TRUE,
                  !.actions = Append(@, Counted("Related identifiers added", res.ret))]
        ELSE [st EXCEPT !.record = res.record]

apply_corrections(rec, rep) ==
    LET corrections == rep.corrections
        isMap == corrections.shape = "map"
        s0 == [record |-> rec, changed |-> FALSE, actions |-> <<>>,
               unapplied |-> <<>>, raised |-> FALSE]
        s1 == Gated(s0, HasCorrection(corrections, "title"), isMap,
                    rep.title_corrected,
                    apply_title(s0.record, corrections.title),
                    "Title corrected",
                    "Title correction present but title_corrected=false")
        s2 == Gated(s1, HasCorrection(corrections, "abstract"), isMap,
                    rep.abstract_corrected,
                    apply_abstract(s1.record, corrections.abstract),
                    "Abstract corrected",
                    "Abstract correction present but abstract_corrected=false")
        s3 == Gated(s2, HasCorrection(corrections, "publication_date"), isMap,
                    rep.date_corrected,
                    apply_publication_date(s2.record, corrections.publication_date),
                    "Publication date corrected",
                    "Publication date correction present but date_corrected=false")
        s4 == Gated(s3, isMap /\ corrections.delete_descriptor.kind # "absent", isMap,
                    rep.descriptor_corrected,
                    apply_descriptor_deletions(s3.record,
                        DeletionList(corrections.delete_descriptor)),
                    "Descriptors deleted",
                    "Descriptor deletions present but descriptor_corrected=false")
        s5 == AffStep(s4, rep)
        s6 == OrgStep(s5, rep)
    IN  RelStep(s6, corrections)

----------------------------------------------------------------------------
(* File names and directories.  A file name is a sequence of tokens, "."   *)
(* among them; a directory's content is a function from names to files; a  *)
(* file is [kind, rec, tag]: kind "json" (rec is the parsed value),        *)
(* "invalid" (json.load raises JSONDecodeError), "blob" (never read) or    *)
(* "dir" (a subdirectory).  tag tells files of equal content apart.        *)

\* str.rfind(".") on the name, 1-based (0: none)
LastDot(name) ==
    LET dots == {i \in DOMAIN name : name[i] = "."}
    IN  IF dots = {} THEN 0 ELSE CHOOSE i \in dots : \A j \in dots : j <= i

\* PurePath.suffix and PurePath.stem
Suffix(name) ==
    LET i == LastDot(name)
    IN  IF 1 < i /\ i < Len(name) THEN SubSeq(name, i, Len(name)) ELSE <<>>

Stem(name) ==
    LET i == LastDot(name)
    IN  IF 1 < i /\ i < Len(name) THEN SubSeq(name, 1, i - 1) ELSE name

\* str(i) for the suffix counter
Num(i) == <<"1", "2", "3", "4", "5", "6", "7", "8", "9">>[i]

\* records_dir.glob(f"{key}.*") matches this name
GlobMatch(key, name) == IsPrefix(key \o <<".">>, name)

Remove(files, name) == [n \in DOMAIN files \ {name} |-> files[n]]
Put(files, name, file) == [n \in DOMAIN files \cup {name} |->
                              IF n = name THEN file ELSE files[n]]

report_key(report_path, report_data) ==
    LET stem == Stem(report_path)
    IN  IF report_data.record_id # <<>> THEN report_data.record_id
        ELSE IF stem # <<>> /\ stem[Len(stem)] = "-report"
        THEN SubSeq(stem, 1, Len(stem) - 1)
        ELSE stem

find_record_file(files, key) ==
    LET candidate == key \o <<".", "json">>
    IN  IF candidate \in DOMAIN files THEN candidate ELSE <<>>

\* The while loop of safe_move: the first i >= start whose name is unused.
RECURSIVE Probe(_, _, _, _)
Probe(files, stem, suffix, i) ==
    LET candidate == stem \o <<"_", Num(i)>> \o suffix
    IN  IF candidate \notin DOMAIN files THEN candidate
        ELSE Probe(files, stem, suffix, i + 1)

\* Mutant: the destination is the source's name, taken or not.
DestName_Overwrite(files, src) == src

\* The destination name safe_move settles on.
DestName(files, src) ==
    IF src \in DOMAIN files THEN Probe(files, Stem(src), Suffix(src), 1) ELSE src

\* safe_move on the batch state st = [store, oos, dup, ...]: dir is "oos" or
\* "dup".  mkdir runs before the dry-run test.
safe_move(st, key, src, dir, dry) ==
    LET made == [st EXCEPT ![dir].exists = TRUE]
        dest == DestName(made[dir].files, src)
        logged == [made EXCEPT !.moves = Append(@,
                      [key |-> key, src |-> src, dir |-> dir, dest |-> dest,
                       dry |-> dry])]
    IN  IF dry THEN logged
        ELSE [logged EXCEPT ![dir].files = Put(@, dest, st.store[src]),
                            !.store = Remove(@, src)]

should_move_out_of_scope(rep) == rep.scope_ok = JFalse

duplicate_reason(rep) ==
    LET by_title == Truthy(rep.duplicate_by_title)
        by_doi == Truthy(rep.duplicate_by_doi)
    IN  IF by_title /\ by_doi THEN "title and doi"
        ELSE IF by_title THEN "title"
        ELSE IF by_doi THEN "doi"
        ELSE "#none"

should_move_duplicate(rep) == duplicate_reason(rep) # "#none"

----------------------------------------------------------------------------
(* The batch driver.  The batch state is                                   *)
(*   [store, oos, dup, stats, entries, moves, raised]                      *)
(* store: the files of records_dir; oos, dup: [exists, files], the two     *)
(* quarantine folders; moves: the calls of safe_move; raised: an exception *)
(* left process.  An item of report_map is [key, report, path].            *)

\* report_map[key] = (data, path): a dict keeps the place of a key's first
\* insertion and the value of its last.
MapInsert(rmap, item) ==
    IF \E i \in DOMAIN rmap : rmap[i].key = item.key
    THEN [i \in DOMAIN rmap |->
            IF rmap[i].key = item.key THEN item ELSE rmap[i]]
    ELSE Append(rmap, item)

\* Lines 374-383: the loop over report_files, in the order glob gave them.
RECURSIVE BuildReportMap(_, _, _)
BuildReportMap(qa_dir, files, rmap) ==
    IF files = <<>> THEN [map |-> rmap, raised |-> FALSE]
    ELSE LET path == Head(files)
             file == qa_dir[path]
             key == report_key(path, file.rep)
         IN  IF file.kind = "invalid"
             THEN BuildReportMap(qa_dir, Tail(files), rmap)
             ELSE IF ~file.mapping THEN [map |-> rmap, raised |-> TRUE]
             ELSE IF key = <<>>
             THEN BuildReportMap(qa_dir, Tail(files), rmap)
             ELSE BuildReportMap(qa_dir, Tail(files),
                      MapInsert(rmap,
                                [key |-> key, report |-> file.rep, path |-> path]))

\* Lines 422-427: the loop over the glob's files, srcs, in the order given.
RECURSIVE MoveAll(_, _, _, _, _)
MoveAll(st, key, srcs, dir, dry) ==
    IF srcs = <<>> THEN st
    ELSE MoveAll(IF st.store[Head(srcs)].kind = "dir" THEN st
                 ELSE safe_move(st, key, Head(srcs), dir, dry),
                 key, Tail(srcs), dir, dry)

\* Mutant: the duplicate folder wins when both predicates hold.
DestDir_DuplicateFirst(rep) == IF should_move_duplicate(rep) THEN "dup" ELSE "oos"

DestDir(rep) == IF should_move_out_of_scope(rep) THEN "oos" ELSE "dup"

MoveAction(rep) ==
    IF should_move_out_of_scope(rep) THEN Note("Moved to Possible_Out_Of_Scope")
    ELSE IF duplicate_reason(rep) = "title and doi"
    THEN Note("Moved to Possible_Duplicates (duplicate by title and doi)")
    ELSE IF duplicate_reason(rep) = "title"
    THEN Note("Moved to Possible_Duplicates (duplicate by title)")
    ELSE Note("Moved to Possible_Duplicates (duplicate by doi)")

CountMove(stats, rep) ==
    IF should_move_out_of_scope(rep) THEN [stats EXCEPT !.moved_out = @ + 1]
    ELSE [stats EXCEPT !.moved_dup = @ + 1]

\* save_json: open(path, "w") rewrites the file, and creates it if it is gone.
save_json(st, path, data, dry) ==
    IF dry THEN st
    ELSE IF path \in DOMAIN st.store THEN [st EXCEPT !.store[path].rec = data]
    ELSE [st EXCEPT !.store = Put(@, path, [kind |-> "json", rec |-> data,
                                            tag |-> "rewritten"])]

\* The files the glob of line 424 yields.
GlobFiles(files, key) == {n \in DOMAIN files : GlobMatch(key, n)}

\* The orders in which a glob may yield the files S.
Orders(S) == {q \in [1..Cardinality(S) -> S] : Range(q) = S}

\* Lines 415-417: persist the record if apply_corrections changed it.
Persist(st, record_path, res, dry) ==
    IF res.changed
    THEN save_json([st EXCEPT !.stats.corrected = @ + 1], record_path, res.record, dry)
    ELSE st

\* Lines 419-434: relocate the key's files if the report says so.
Relocate(st, key, rep, srcs, dry) ==
    IF should_move_out_of_scope(rep) \/ should_move_duplicate(rep)
    THEN [MoveAll(st, key, srcs, DestDir(rep), dry) EXCEPT !.stats = CountMove(@, rep)]
    ELSE st

\* Mutant: relocate first, then persist to the record's old path.
RelocateThenPersist(st, record_path, key, rep, res, srcs, dry) ==
    Persist(Relocate(st, key, rep, srcs, dry), record_path, res, dry)

\* Lines 415-434 in the code's order: first persist, then relocate.
PersistAndRelocate(st, record_path, key, rep, res, srcs, dry) ==
    Relocate(Persist(st, record_path, res, dry), key, rep, srcs, dry)

\* Lines 393-448: one iteration of the loop over report_map, srcs being the
\* glob's result should the record be relocated.
ProcessKey(st, item, dry, srcs) ==
    LET key == item.key
        rep == item.report
        record_path == find_record_file(st.store, key)
        file == st.store[record_path]
        res == apply_corrections(file.rec, rep)
        counted == [st EXCEPT !.stats.processed = @ + 1]
        moved == PersistAndRelocate(counted, record_path, key, rep, res, srcs, dry)
        move == should_move_out_of_scope(rep) \/ should_move_duplicate(rep)
        acts == IF move THEN Append(res.actions, MoveAction(rep)) ELSE res.actions
        actions == IF acts = <<>> THEN <<Note("No changes applied")>> ELSE acts
    IN  IF record_path = <<>>
        THEN [st EXCEPT !.stats.missing = @ + 1,
                        !.entries = Append(@,
                            [key |-> key, record_path |-> <<>>, report_path |-> item.path,
                             actions |-> <<Note("Record JSON missing")>>,
                             unapplied |-> <<>>])]
        ELSE IF file.kind = "invalid" THEN st
        ELSE IF res.raised THEN [counted EXCEPT !.raised = TRUE]
        ELSE [moved EXCEPT !.entries = Append(@,
                 [key |-> key, record_path |-> record_path, report_path |-> item.path,
                  actions |-> actions, unapplied |-> res.unapplied])]

\* One order for the glob of line 424, where a whole run is computed at once.
GlobOrder(S) == CHOOSE q \in Orders(S) : TRUE

\* Lines 392-448: the loop over report_map.
RECURSIVE RunKeys(_, _, _)
RunKeys(st, items, dry) ==
    IF items = <<>> THEN [pc |-> "done", bs |-> st]
    ELSE LET n == ProcessKey(st, Head(items), dry,
                             GlobOrder(GlobFiles(st.store, Head(items).key)))
         IN  IF n.raised THEN [pc |-> "crashed", bs |-> n]
             ELSE RunKeys(n, Tail(items), dry)

\* process as a function of its inputs: the QA files in the order the glob
\* yields them, the batch state at the start, and the dry-run flag.
process(qa_dir, files, st, dry) ==
    LET b == BuildReportMap(qa_dir, files, <<>>)
    IN  IF files = <<>> THEN [pc |-> "returned", bs |-> st]
        ELSE IF b.raised THEN [pc |-> "crashed", bs |-> [st EXCEPT !.raised = TRUE]]
        ELSE RunKeys(st, b.map, dry)

----------------------------------------------------------------------------
(* Inputs of the pure entry points *)

MaxCreators == 2
MaxAffs == 1
MaxPairs == 2
MaxExisting == 2
MaxInput == 2

\* All sequences over S of length at most n.
RECURSIVE SeqsUpTo(_, _)
SeqsUpTo(S, n) ==
    IF n = 0 THEN {<<>>}
    ELSE LET shorter == SeqsUpTo(S, n - 1)
         IN  shorter \cup {Append(q, x) : q \in shorter, x \in S}

NoDeletions == [kind |-> "absent", items |-> <<>>]
NoRelated == [kind |-> "absent", items |-> <<>>]
NoDescriptors == [kind |-> "absent", text |-> <<>>, items |-> <<>>]

NoCorrections ==
    [shape |-> "none", title |-> Absent, abstract |-> Absent,
     publication_date |-> Absent, delete_descriptor |-> NoDeletions,
     related_identifiers |-> NoRelated]

EmptyCorrections == [NoCorrections EXCEPT !.shape = "map"]

\* The report {}.
EmptyReport ==
    [record_id |-> <<>>, corrections |-> NoCorrections,
     title_corrected |-> Absent, abstract_corrected |-> Absent,
     date_corrected |-> Absent, descriptor_corrected |-> Absent,
     affiliation_correction_recommended |-> Absent,
     affiliation_corrections |-> <<>>,
     organizational_author_corrections |-> <<>>,
     scope_ok |-> Absent, duplicate_by_title |-> Absent,
     duplicate_by_doi |-> Absent]

\* The record {}.
EmptyRecord ==
    [mapping |-> TRUE, hasMeta |-> FALSE, title |-> Absent, description |-> Absent,
     publication_date |-> Absent, creators |-> <<>>, hasRel |-> FALSE,
     rel |-> <<>>, desc |-> NoDescriptors]

MetaRecord == [EmptyRecord EXCEPT !.hasMeta = TRUE]

GateValues == {Absent, JTrue, JFalse, JNull, JZero, "", "no"}
ScalarValues == {"New", "", JNull}

AffNames == {"A", "B"}
Creators ==
    [type : {"person", "organizational"}, name : AffNames,
     affiliations : SeqsUpTo(AffNames, MaxAffs)]
Pairs == [shape : {"map"}, old : AffNames \cup {""}, new : AffNames]

Identifiers == [shape : {"map"}, identifier : {"x", "y", ""}, scheme : {"doi"}]
    \cup [shape : {"map"}, identifier : {"x"}, scheme : {"url"}]

DescriptorTexts ==
    {<<>>, <<"U">>, <<"U", ",", " ", "v">>, <<" ", "u", ";", "v", ",">>,
     <<"v", ";", " ", "w">>}
DescriptorItems == {<<"U">>, <<"u">>, <<"v">>}
DescriptorValues ==
    {NoDescriptors, [NoDescriptors EXCEPT !.kind = "other"]}
    \cup {[NoDescriptors EXCEPT !.kind = "str", !.text = t] : t \in DescriptorTexts}
    \cup {[NoDescriptors EXCEPT !.kind = "list", !.items = l] :
            l \in SeqsUpTo(DescriptorItems, 2)}
DeletionValues ==
    {[kind |-> "null", items |-> <<>>]}
    \cup {[kind |-> "str", items |-> <<d>>] : d \in {<<>>, <<"u">>, <<"V">>}}
    \cup {[kind |-> "list", items |-> l] : l \in SeqsUpTo({<<"u">>, <<"V">>}, 2)}

\* Families of (record, report), as predicates on the two variables: one
\* correction type at a time with every gate value, and then all types together.
ScalarInputs ==
    \/ \E t \in {Absent, "Old", "New"},
          v \in {<<"New", Absent, Absent>>, <<Absent, "New", Absent>>,
                 <<Absent, Absent, "New">>, <<"New", "New", "New">>,
                 <<"", JNull, Absent>>},
          g \in {<<x, y, y>> : x \in GateValues, y \in {Absent, JFalse, JNull}}
                \cup {<<Absent, x, Absent>> : x \in GateValues}
                \cup {<<Absent, Absent, x>> : x \in GateValues} :
          /\ record = [MetaRecord EXCEPT !.title = t, !.description = t,
                                         !.publication_date = t]
          /\ report = [EmptyReport EXCEPT
                          !.corrections = [EmptyCorrections EXCEPT
                                              !.title = v[1], !.abstract = v[2],
                                              !.publication_date = v[3]],
                          !.title_corrected = g[1], !.abstract_corrected = g[2],
                          !.date_corrected = g[3]]
    \/ \E v \in ScalarValues :
          /\ record = EmptyRecord
          /\ report = [EmptyReport EXCEPT !.corrections.shape = "map",
                                          !.corrections.title = v]

DescriptorInputs ==
    \E d \in DescriptorValues, x \in DeletionValues, g \in GateValues :
        /\ record = [EmptyRecord EXCEPT !.desc = d]
        /\ report = [EmptyReport EXCEPT !.corrections.shape = "map",
                                        !.corrections.delete_descriptor = x,
                                        !.descriptor_corrected = g]

CreatorInputs ==
    \E cs \in SeqsUpTo(Creators, MaxCreators), ps \in SeqsUpTo(Pairs, MaxPairs) :
        /\ record = [MetaRecord EXCEPT !.creators = cs]
        /\ \/ \E g \in {Absent, JFalse} :
                 report = [EmptyReport EXCEPT
                              !.affiliation_corrections = ps,
                              !.affiliation_correction_recommended = g]
           \/ report = [EmptyReport EXCEPT !.organizational_author_corrections = ps]

RelatedValues ==
    {[kind |-> "obj", items |-> <<i>>] : i \in Identifiers}
    \cup {[kind |-> "list", items |-> l] : l \in SeqsUpTo(Identifiers, MaxInput)}

ExistingRelated ==
    {<<FALSE, <<>> >>} \cup {<<TRUE, l>> : l \in SeqsUpTo(Identifiers, MaxExisting)}

RelatedInputs ==
    \E e \in ExistingRelated, r \in RelatedValues :
        /\ record = [EmptyRecord EXCEPT !.hasMeta = e[1], !.hasRel = e[1], !.rel = e[2]]
        /\ report = [EmptyReport EXCEPT !.corrections.shape = "map",
                                        !.corrections.related_identifiers = r]

MixedInputs ==
    \E cs \in SeqsUpTo(Creators, 1), ps \in SeqsUpTo(Pairs, 1), qs \in SeqsUpTo(Pairs, 1) :
        /\ record = [MetaRecord EXCEPT
                        !.title = "Old", !.creators = cs,
                        !.desc = [NoDescriptors EXCEPT !.kind = "str",
                                                       !.text = <<"U", ",", " ", "v">>]]
        /\ report = [EmptyReport EXCEPT
                        !.corrections =
                            [EmptyCorrections EXCEPT
                                !.title = "New",
                                !.delete_descriptor =
                                    [kind |-> "str", items |-> << <<"u">> >>],
                                !.related_identifiers =
                                    [kind |-> "obj",
                                     items |-> <<[shape |-> "map", identifier |-> "x",
                                                  scheme |-> "doi"]>>]],
                        !.affiliation_corrections = ps,
                        !.organizational_author_corrections = qs]

ApplyInputs ==
    ScalarInputs \/ DescriptorInputs \/ CreatorInputs \/ RelatedInputs \/ MixedInputs

NoResult ==
    [record |-> EmptyRecord, changed |-> FALSE, actions |-> <<>>,
     unapplied |-> <<>>, raised |-> FALSE]

EmptyFolder == [exists |-> FALSE, files |-> <<>>]

NoStats == [processed |-> 0, corrected |-> 0, moved_out |-> 0, moved_dup |-> 0,
            missing |-> 0]

EmptyBatch ==
    [store |-> <<>>, oos |-> EmptyFolder, dup |-> EmptyFolder, stats |-> NoStats,
     entries |-> <<>>, moves |-> <<>>, raised |-> FALSE]

\* The batch variables of a behaviour that does not run process.
NoBatch ==
    /\ dry_run = FALSE
    /\ qa = <<>>
    /\ report_files = <<>>
    /\ bs0 = EmptyBatch
    /\ bs = EmptyBatch
    /\ todo = <<>>

\* The other variables of a behaviour that runs process.
NoPure ==
    /\ record = EmptyRecord
    /\ report = EmptyReport
    /\ identifiers = <<>>
    /\ rec0 = EmptyRecord
    /\ rec1 = EmptyRecord
    /\ out1 = NoResult
    /\ out2 = NoResult

----------------------------------------------------------------------------
(* apply_corrections run twice with the same report on the same record *)

InitApply ==
    /\ mode = "apply"
    /\ pc = "start"
    /\ ApplyInputs
    /\ identifiers = <<>>
    /\ rec0 = record
    /\ rec1 = record
    /\ out1 = NoResult
    /\ out2 = NoResult
    /\ NoBatch

FirstApply ==
    /\ mode = "apply"
    /\ pc = "start"
    /\ LET r == apply_corrections(record, report)
       IN  /\ out1' = r
           /\ record' = r.record
           /\ rec1' = r.record
    /\ pc' = "once"
    /\ UNCHANGED <<mode, report, identifiers, rec0, out2, batchVars>>

SecondApply ==
    /\ mode = "apply"
    /\ pc = "once"
    /\ LET r == apply_corrections(record, report)
       IN  /\ out2' = r
           /\ record' = r.record
    /\ pc' = "twice"
    /\ UNCHANGED <<mode, report, identifiers, rec0, rec1, out1, batchVars>>

NextApply == FirstApply \/ SecondApply

SpecApply == InitApply /\ [][NextApply]_vars

----------------------------------------------------------------------------
(* Claims about apply_corrections (SpecApply) *)

\* C1: after apply_corrections(record, report) has run once, running it again
\* with the same report on the resulting record returns changed = false and an
\* empty action list, and leaves the record unchanged.
C1_Idempotent ==
    pc = "twice" =>
        /\ out2.changed = FALSE
        /\ out2.actions = <<>>
        /\ out2.record = rec1

GatedFields == {"title", "abstract", "publication_date", "delete_descriptor"}

GateOf(rep, field) ==
    CASE field = "title" -> rep.title_corrected
      [] field = "abstract" -> rep.abstract_corrected
      [] field = "publication_date" -> rep.date_corrected
      [] field = "delete_descriptor" -> rep.descriptor_corrected

WithheldNote(field) ==
    CASE field = "title" -> Note("Title correction present but title_corrected=false")
      [] field = "abstract" ->
            Note("Abstract correction present but abstract_corrected=false")
      [] field = "publication_date" ->
            Note("Publication date correction present but date_corrected=false")
      [] field = "delete_descriptor" ->
            Note("Descriptor deletions present but descriptor_corrected=false")

CorrectionPresent(rep, field) ==
    /\ rep.corrections.shape = "map"
    /\ IF field = "delete_descriptor"
       THEN rep.corrections.delete_descriptor.kind # "absent"
       ELSE rep.corrections[field] # Absent

\* The record's field a gated correction writes.
FieldOf(rec, field) ==
    CASE field = "title" -> <<rec.title>>
      [] field = "abstract" -> <<rec.description>>
      [] field = "publication_date" -> <<rec.publication_date>>
      [] field = "delete_descriptor" -> <<rec.desc>>

\* C8: a present correction of title, abstract, publication_date or
\* delete_descriptor is withheld (field unchanged, one unapplied entry naming
\* the field) if and only if its gate flag is explicitly false; for every other
\* gate value, an absent flag included, it is attempted.
C8_GatePolicy ==
    pc = "once" =>
        \A field \in GatedFields :
            CorrectionPresent(report, field) =>
                LET withheld ==
                        /\ SeqCount(out1.unapplied, WithheldNote(field)) = 1
                        /\ FieldOf(out1.record, field) = FieldOf(rec0, field)
                IN  /\ GateOf(report, field) = JFalse => withheld
                    /\ GateOf(report, field) # JFalse =>
                           SeqCount(out1.unapplied, WithheldNote(field)) = 0

----------------------------------------------------------------------------
(* add_related_identifiers on a record and an input list *)

InitRel ==
    /\ mode = "related"
    /\ pc = "start"
    /\ \E e \in ExistingRelated :
          record = [EmptyRecord EXCEPT !.hasMeta = e[1], !.hasRel = e[1], !.rel = e[2]]
    /\ identifiers \in SeqsUpTo(Identifiers, MaxInput)
    /\ report = EmptyReport
    /\ rec0 = record
    /\ rec1 = record
    /\ out1 = Ret(EmptyRecord, 0)
    /\ out2 = NoResult
    /\ NoBatch

AddRelated ==
    /\ mode = "related"
    /\ pc = "start"
    /\ LET r == add_related_identifiers(record, identifiers)
       IN  /\ out1' = r
           /\ record' = r.record
           /\ rec1' = r.record
    /\ pc' = "added"
    /\ UNCHANGED <<mode, report, identifiers, rec0, out2, batchVars>>

NextRel == AddRelated

SpecRel == InitRel /\ [][NextRel]_vars

----------------------------------------------------------------------------
(* process: the record store, the QA reports and the quarantine folders *)

MaxPre == 1

RecA == <<"a", ".", "json">>
PdfA == <<"a", ".", "pdf">>
DirA == <<"a", ".", "d">>
RecAB == <<"a", ".", "b", ".", "json">>
RecA1 == <<"a", "_", "1", ".", "json">>

QA1 == <<"a", "-report", ".", "json">>
QA2 == <<"a", ".", "b", "-report", ".", "json">>
QA3 == <<"a", "_", "1", ".", "json">>

RecordFile(title, tag) ==
    [kind |-> "json", rec |-> [MetaRecord EXCEPT !.title = title], tag |-> tag]
InvalidFile(tag) == [kind |-> "invalid", rec |-> EmptyRecord, tag |-> tag]
\* A record file holding the JSON list [].
ListFile(tag) ==
    [kind |-> "json", rec |-> [EmptyRecord EXCEPT !.mapping = FALSE], tag |-> tag]
BlobFile(tag) == [kind |-> "blob", rec |-> EmptyRecord, tag |-> tag]
Directory(tag) == [kind |-> "dir", rec |-> EmptyRecord, tag |-> tag]

ReportFile(rep) == [kind |-> "json", mapping |-> TRUE, rep |-> rep]
InvalidReport == [kind |-> "invalid", mapping |-> FALSE, rep |-> EmptyReport]
\* A report file holding the JSON list [].
ListReport == [kind |-> "json", mapping |-> FALSE, rep |-> EmptyReport]

\* The directory holding the files of the <<name, file>> pairs S.
Dir(S) == [n \in {p[1] : p \in S} |-> (CHOOSE p \in S : p[1] = n)[2]]

\* a.json, a_1.json, ..., a_<n>.json
PreNames(n) == {RecA} \cup {<<"a", "_", Num(i), ".", "json">> : i \in 1..n}

Folder(names) ==
    [exists |-> TRUE, files |-> [n \in names |-> BlobFile("old")]]

Folders(names) == {EmptyFolder} \cup {Folder(S) : S \in SUBSET names}

TitleCorrection(title) ==
    IF title = Absent THEN NoCorrections ELSE [EmptyCorrections EXCEPT !.title = title]

Report(record_id, title, d) ==
    [EmptyReport EXCEPT !.record_id = record_id,
                        !.corrections = TitleCorrection(title),
                        !.scope_ok = d[1], !.duplicate_by_title = d[2],
                        !.duplicate_by_doi = d[3]]

NoMove == <<Absent, Absent, Absent>>
OutOfScope == <<JFalse, Absent, Absent>>
Dispositions == {Absent, JFalse, JZero} \X {Absent, JTrue} \X {Absent, JTrue}

\* Reports that reach each way of failing, and their well-formed neighbours.
ShapeReports ==
    {EmptyReport,
     Report(<<>>, "New", NoMove),
     Report(<<>>, "New", OutOfScope),
     [EmptyReport EXCEPT !.corrections.shape = "list"],
     [EmptyReport EXCEPT !.corrections.shape = "list", !.title_corrected = JFalse],
     [EmptyReport EXCEPT !.affiliation_corrections =
                            <<[shape |-> "str", old |-> Absent, new |-> Absent]>>],
     [EmptyReport EXCEPT !.corrections.shape = "map",
                         !.corrections.related_identifiers =
                             [kind |-> "list",
                              items |-> <<[shape |-> "str", identifier |-> Absent,
                                           scheme |-> Absent]>>]]}

Batch(files, oos, dup) ==
    [EmptyBatch EXCEPT !.store = Dir(files), !.oos = oos, !.dup = dup]

\* Malformed reports and records.
ShapeInputs ==
    \E q1 \in {InvalidReport, ListReport} \cup {ReportFile(r) : r \in ShapeReports},
       a \in {{}, {<<RecA, RecordFile("Old", "a")>>}, {<<RecA, InvalidFile("a")>>},
              {<<RecA, ListFile("a")>>}},
       q2 \in {{}, {<<QA2, ReportFile(Report(<<>>, "New", NoMove))>>}} :
        /\ qa = Dir({<<QA1, q1>>} \cup q2)
        /\ bs0 = Batch(a \cup {<<RecAB, RecordFile("Old", "ab")>>},
                       EmptyFolder, EmptyFolder)

\* Two reports whose keys are a and a.b, or both a.
PrefixInputs ==
    \E t1 \in {Absent, "New"}, d1 \in {NoMove, OutOfScope, <<Absent, JTrue, Absent>>},
       q2 \in {{}} \cup
              {{<<QA2, ReportFile(Report(id, t2, d2))>>} :
                  id \in {<<>>, <<"a">>}, t2 \in {Absent, "New2"},
                  d2 \in {NoMove, OutOfScope, <<Absent, Absent, JTrue>>}},
       sib \in {{}, {<<PdfA, BlobFile("pdf")>>, <<DirA, Directory("d")>>}},
       ab \in {{}, {<<RecAB, RecordFile("Old", "ab")>>}},
       o \in Folders({RecA}), d \in Folders({RecA}) :
        /\ qa = Dir({<<QA1, ReportFile(Report(<<>>, t1, d1))>>} \cup q2)
        /\ bs0 = Batch({<<RecA, RecordFile("Old", "a")>>,
                        <<RecA1, RecordFile("Old", "a1")>>} \cup sib \cup ab, o, d)

\* Every disposition, into folders that already hold files of the same names.
CollisionInputs ==
    \E t1 \in {Absent, "New"}, d1 \in Dispositions,
       q3 \in {{}} \cup
              {{<<QA3, ReportFile(Report(<<>>, Absent, d3))>>} :
                  d3 \in {NoMove, OutOfScope, <<Absent, JTrue, Absent>>}},
       sib \in {{}, {<<PdfA, BlobFile("pdf")>>}},
       a1 \in {{}, {<<RecA1, RecordFile("Old", "a1")>>}},
       o \in Folders(PreNames(MaxPre)), d \in Folders({RecA}) :
        /\ qa = Dir({<<QA1, ReportFile(Report(<<>>, t1, d1))>>} \cup q3)
        /\ bs0 = Batch({<<RecA, RecordFile("Old", "a")>>} \cup sib \cup a1, o, d)

\* A QA directory with no report file.
NoReportInputs ==
    /\ qa = <<>>
    /\ bs0 = Batch({<<RecA, RecordFile("Old", "a")>>}, EmptyFolder, EmptyFolder)

OrgCreator(name) == [type |-> "organizational", name |-> name, affiliations |-> <<>>]

\* An organizational author renamed, to another name or to its own.
RenameInputs ==
    \E new \in AffNames, d \in {NoMove, OutOfScope, <<Absent, JTrue, JTrue>>},
       o \in Folders({RecA}) :
        /\ qa = Dir({<<QA1, ReportFile(
                      [EmptyReport EXCEPT
                          !.organizational_author_corrections =
                              <<[shape |-> "map", old |-> "A", new |-> new]>>,
                          !.scope_ok = d[1], !.duplicate_by_title = d[2],
                          !.duplicate_by_doi = d[3]])>>})
        /\ bs0 = Batch({<<RecA, [kind |-> "json", tag |-> "a",
                                 rec |-> [MetaRecord EXCEPT
                                             !.creators = <<OrgCreator("A")>>]]>>},
                       o, EmptyFolder)

BatchInputs ==
    ShapeInputs \/ PrefixInputs \/ CollisionInputs \/ RenameInputs \/ NoReportInputs

InitBatch ==
    /\ mode = "process"
    /\ pc = "start"
    /\ BatchInputs
    /\ dry_run \in BOOLEAN
    /\ report_files \in Orders(DOMAIN qa)
    /\ bs = bs0
    /\ todo = <<>>
    /\ NoPure

\* Lines 369-383: list the report files and build report_map.
LoadReports ==
    /\ mode = "process"
    /\ pc = "start"
    /\ LET b == BuildReportMap(qa, report_files, <<>>)
       IN  IF report_files = <<>>
           THEN pc' = "returned" /\ UNCHANGED <<bs, todo>>
           ELSE IF b.raised
           THEN pc' = "crashed" /\ bs' = [bs EXCEPT !.raised = TRUE] /\ UNCHANGED todo
           ELSE pc' = "loop" /\ todo' = b.map /\ UNCHANGED bs
    /\ UNCHANGED <<mode, pureVars, dry_run, qa, report_files, bs0>>

\* Lines 392-448: one iteration of the loop over report_map.
ProcessNext ==
    /\ mode = "process"
    /\ pc = "loop"
    /\ todo # <<>>
    /\ \E srcs \in Orders(GlobFiles(bs.store, Head(todo).key)) :
          bs' = ProcessKey(bs, Head(todo), dry_run, srcs)
    /\ todo' = Tail(todo)
    /\ pc' = IF bs'.raised THEN "crashed" ELSE "loop"
    /\ UNCHANGED <<mode, pureVars, dry_run, qa, report_files, bs0>>

\* Lines 450-472: the counts and the audit report.
Render ==
    /\ mode = "process"
    /\ pc = "loop"
    /\ todo = <<>>
    /\ pc' = "done"
    /\ UNCHANGED <<mode, pureVars, batchVars>>

NextBatch == LoadReports \/ ProcessNext \/ Render

SpecBatch == InitBatch /\ [][NextBatch]_vars

----------------------------------------------------------------------------
(* Claims about add_related_identifiers (SpecRel) *)

Ids(rel) == [i \in DOMAIN rel |-> Get(rel[i].identifier, "")]

NoDuplicates(q) == \A i, j \in DOMAIN q : q[i] = q[j] => i = j

\* a is b with some entries left out, the order kept
RECURSIVE IsSubsequence(_, _)
IsSubsequence(a, b) ==
    IF a = <<>> THEN TRUE
    ELSE IF b = <<>> THEN FALSE
    ELSE IF Head(a) = Head(b) THEN IsSubsequence(Tail(a), Tail(b))
    ELSE IsSubsequence(a, Tail(b))

Appended == SubSeq(record.rel, Len(rec0.rel) + 1, Len(record.rel))

\* C7 as stated: after add_related_identifiers the previous sequence is a
\* prefix of the new one, the appended entries are in input order, and no
\* identifier string appears more than once in the output sequence.
C7_Original ==
    (mode = "related" /\ pc = "added") =>
        /\ IsPrefix(rec0.rel, record.rel)
        /\ IsSubsequence(Appended, identifiers)
        /\ NoDuplicates(Ids(record.rel))

\* C7 amended: the previous sequence is a prefix of the new one, the appended
\* entries are in input order, and no appended identifier string is empty,
\* present in the previous sequence or appended twice, every non-empty input
\* identifier being in the output; so the output has no duplicate identifier
\* string whenever the previous sequence had none.
C7_AppendOnly ==
    (mode = "related" /\ pc = "added") =>
        /\ IsPrefix(rec0.rel, record.rel)
        /\ IsSubsequence(Appended, identifiers)
        /\ NoDuplicates(Ids(Appended))
        /\ \A i \in DOMAIN Appended :
              /\ Ids(Appended)[i] # ""
              /\ Ids(Appended)[i] \notin Range(Ids(rec0.rel))
        /\ \A i \in DOMAIN identifiers :
              Ids(identifiers)[i] # "" => Ids(identifiers)[i] \in Range(Ids(record.rel))
        /\ NoDuplicates(Ids(rec0.rel)) => NoDuplicates(Ids(record.rel))

\* An input with an identifier the record already has and one it has not.
C7_Witness ==
    /\ mode = "related"
    /\ pc = "added"
    /\ rec0.rel # <<>>
    /\ Len(record.rel) > Len(rec0.rel)
    /\ Len(record.rel) < Len(rec0.rel) + Len(identifiers)
    /\ \E i \in DOMAIN identifiers : Ids(identifiers)[i] \in Range(Ids(rec0.rel))

----------------------------------------------------------------------------
(* Claims about process (SpecBatch) *)

\* The report of a key, as report_map holds it.
ReportOf(key) ==
    LET rmap == BuildReportMap(qa, report_files, <<>>).map
    IN  rmap[CHOOSE i \in DOMAIN rmap : rmap[i].key = key].report

Entry(i) == bs.entries[i]
Move(i) == bs.moves[i]
\* Entries of keys whose record was found and loaded.
Processed == {i \in DOMAIN bs.entries : Entry(i).record_path # <<>>}

\* What apply_corrections made of the record of entry i.
Applied(i) ==
    apply_corrections(bs0.store[Entry(i).record_path].rec, ReportOf(Entry(i).key))

Relocates(rep) == should_move_out_of_scope(rep) \/ should_move_duplicate(rep)

\* C2: a run with dry_run = true yields the same counts and the same per-key
\* action and unapplied lists as a run with dry_run = false from the same
\* snapshot and in the same order, and leaves the record store unchanged: no
\* file rewritten, no file moved, no quarantine directory created.
C2_DryRunEquivalence ==
    (mode = "process" /\ pc = "done" /\ dry_run) =>
        LET live == process(qa, report_files, bs0, FALSE)
        IN  /\ live.pc = "done"
            /\ live.bs.stats = bs.stats
            /\ live.bs.entries = bs.entries
            /\ bs.store = bs0.store
            /\ bs.oos = bs0.oos
            /\ bs.dup = bs0.dup

\* The files of the record store that process(key) moved, or would have moved.
MovedFor(key) == {Move(i).src : i \in {j \in DOMAIN bs.moves : Move(j).key = key}}

\* C3: when process relocates the record of key K, the files moved out of the
\* record store are exactly its non-directory files whose stem equals K: no
\* file whose stem is another key is moved, and no file of stem K is left.
C3_RelocationScope ==
    mode = "process" =>
        \A i \in Processed :
            Relocates(ReportOf(Entry(i).key)) =>
                /\ \A n \in MovedFor(Entry(i).key) :
                       /\ Stem(n) = Entry(i).key
                       /\ bs0.store[n].kind # "dir"
                /\ \A n \in DOMAIN bs0.store :
                       (bs0.store[n].kind # "dir" /\ Stem(n) = Entry(i).key)
                           => n \in MovedFor(Entry(i).key)

\* C4: no malformed report or record makes the batch abort.
C4_FailureContainment == pc # "crashed"

\* C5: for every report whose scope_ok is exactly false, the record's files go
\* to the out-of-scope folder and never to the duplicates folder, whatever
\* duplicate_by_title and duplicate_by_doi are; moved_out counts it and
\* moved_dup does not, so each processed record is in at most one of the two
\* counters and in at most one destination.
C5_DispositionPrecedence ==
    mode = "process" =>
        /\ \A i \in DOMAIN bs.moves :
              /\ ReportOf(Move(i).key).scope_ok = JFalse => Move(i).dir = "oos"
              /\ ~Move(i).dry => Move(i).dest \in DOMAIN bs[Move(i).dir].files
              /\ \A j \in DOMAIN bs.moves :
                    Move(j).key = Move(i).key => Move(j).dir = Move(i).dir
        /\ DOMAIN bs.dup.files =
              DOMAIN bs0.dup.files
                \cup {Move(i).dest : i \in {j \in DOMAIN bs.moves :
                                               Move(j).dir = "dup" /\ ~Move(j).dry}}
        /\ bs.stats.moved_out =
              Cardinality({i \in Processed : ReportOf(Entry(i).key).scope_ok = JFalse})
        /\ bs.stats.moved_dup =
              Cardinality({i \in Processed :
                  /\ ReportOf(Entry(i).key).scope_ok # JFalse
                  /\ \/ Truthy(ReportOf(Entry(i).key).duplicate_by_title)
                     \/ Truthy(ReportOf(Entry(i).key).duplicate_by_doi)})

\* A live run that relocated a record flagged out of scope and duplicate.
C5_Witness ==
    /\ mode = "process"
    /\ pc = "done"
    /\ ~dry_run
    /\ \E i \in DOMAIN bs.moves :
          /\ ReportOf(Move(i).key).scope_ok = JFalse
          /\ Truthy(ReportOf(Move(i).key).duplicate_by_title)
          /\ Move(i).dest \in DOMAIN bs.oos.files

\* The names in folder dir when the i-th call of safe_move ran.
NamesBefore(i) ==
    DOMAIN bs0[Move(i).dir].files
      \cup {Move(j).dest : j \in {k \in 1..(i - 1) :
                                     Move(k).dir = Move(i).dir /\ ~Move(k).dry}}

Suffixed(src, n) == Stem(src) \o <<"_", Num(n)>> \o Suffix(src)

\* C6: safe_move never overwrites.  A source whose name is taken at the
\* destination is stored as stem_i.ext for the smallest i >= 1 whose name is
\* unused, and every file that was at the destination before is still there
\* with its name and content, across the successive moves of a run as well.
C6_CollisionFree ==
    mode = "process" =>
        /\ \A i \in DOMAIN bs.moves :
              /\ IF Move(i).src \notin NamesBefore(i) THEN Move(i).dest = Move(i).src
                 ELSE \E n \in 1..(Cardinality(NamesBefore(i)) + 1) :
                         /\ Move(i).dest = Suffixed(Move(i).src, n)
                         /\ Move(i).dest \notin NamesBefore(i)
                         /\ \A k \in 1..(n - 1) :
                               Suffixed(Move(i).src, k) \in NamesBefore(i)
              /\ ~Move(i).dry =>
                    /\ Move(i).dest \in DOMAIN bs[Move(i).dir].files
                    /\ Move(i).src \notin DOMAIN bs.store
                    /\ bs[Move(i).dir].files[Move(i).dest].tag
                          = bs0.store[Move(i).src].tag
        /\ \A dir \in {"oos", "dup"} :
              \A n \in DOMAIN bs0[dir].files :
                 /\ n \in DOMAIN bs[dir].files
                 /\ bs[dir].files[n] = bs0[dir].files[n]

\* A live run in which a file moved under a suffixed name made the next file
\* moved into the folder take a suffixed name too.
C6_Witness ==
    /\ mode = "process"
    /\ pc = "done"
    /\ \E i, j \in DOMAIN bs.moves :
          /\ i < j
          /\ ~Move(i).dry /\ ~Move(j).dry
          /\ Move(i).dir = Move(j).dir
          /\ Move(i).dest # Move(i).src
          /\ Move(j).src = Move(i).dest
          /\ Move(j).dest # Move(j).src

\* The quarantined JSON file of entry i holds the corrected record, and the
\* record store holds no file of its key.
CorrectedFileRelocated(i) ==
    /\ \E m \in DOMAIN bs.moves :
          /\ Move(m).key = Entry(i).key
          /\ Move(m).src = Entry(i).record_path
          /\ Move(m).dest \in DOMAIN bs[Move(m).dir].files
          /\ bs[Move(m).dir].files[Move(m).dest].kind = "json"
          /\ bs[Move(m).dir].files[Move(m).dest].rec = Applied(i).record
    /\ \A n \in DOMAIN bs.store :
          bs.store[n].kind # "dir" => Stem(n) # Entry(i).key

\* The report of entry i made its record differ from the stored one.
RecordChanged(i) == Applied(i).record # bs0.store[Entry(i).record_path].rec

\* C9: in a live run, for every key whose report both changes the record and
\* indicates relocation, the corrected record is written before its file is
\* moved: the relocated JSON file in the quarantine folder holds the corrected
\* content and no file of that key remains in, or is created again in, the
\* record store; and the corrected counter counts exactly the keys whose
\* record was changed.
C9_PersistBeforeRelocate ==
    (mode = "process" /\ ~dry_run) =>
        /\ \A i \in Processed :
              (RecordChanged(i) /\ Relocates(ReportOf(Entry(i).key)))
                  => CorrectedFileRelocated(i)
        /\ bs.stats.corrected = Cardinality({i \in Processed : RecordChanged(i)})

\* The ordering alone, with "changed" read as the flag apply_corrections
\* returns: the corrected file is what is relocated, and the corrected counter
\* counts the keys for which the flag was set.
PersistThenRelocate ==
    (mode = "process" /\ ~dry_run) =>
        /\ \A i \in Processed :
              (Applied(i).changed /\ Relocates(ReportOf(Entry(i).key)))
                  => CorrectedFileRelocated(i)
        /\ bs.stats.corrected = Cardinality({i \in Processed : Applied(i).changed})

\* C10: the final record store, the counts and the per-key audit entries are
\* the same for every order in which the report files are enumerated.
C10_OrderIndependence ==
    (mode = "process" /\ pc = "done") =>
        \A o \in Orders(DOMAIN qa) :
            LET other == process(qa, o, bs0, dry_run)
            IN  /\ other.pc = "done"
                /\ other.bs.store = bs.store
                /\ other.bs.oos = bs.oos
                /\ other.bs.dup = bs.dup
                /\ other.bs.stats = bs.stats
                /\ Range(other.bs.entries) = Range(bs.entries)

====
